---- MODULE Spec2Model ----
(***************************************************************************)
(* Model of transfer.py: argument parsing, the two validation predicates,  *)
(* the interactive repair loop and the rsync invocation.                   *)
(*                                                                         *)
(* A Python str is a sequence of one-character strings.  None is a value   *)
(* that is not a str.                                                      *)
(***************************************************************************)
EXTENDS Integers, Sequences, FiniteSets, TLC

VARIABLES
    pc,            \* position of the main thread
    cli,           \* the values given on the command line (None = not given)
    args,          \* the argparse Namespace returned by parse_args, as mutated
    fs,            \* the paths that currently name an existing filesystem entry
    fsChanges,     \* number of changes the environment has made to fs
    stdin,         \* the lines the interactive input stream will supply
    rd,            \* number of lines of stdin consumed by input()
    out,           \* everything printed so far, in order
    rsync_command, \* the argument list built by main (<<>> before it is built)
    children,      \* the outcome of every subprocess.run call so far
    exit_status,   \* the exit status of the process (-1 while it is running)
    ip,            \* validate_ip harness: the string under test
    ipGroups,      \* validate_ip harness: groups written into ip so far
    ipPhase,       \* validate_ip harness: "build", "ready" or "checked"
    ipVerdict      \* validate_ip harness: what validate_ip returned

vars == <<pc, cli, args, fs, fsChanges, stdin, rd, out, rsync_command,
          children, exit_status, ip, ipGroups, ipPhase, ipVerdict>>

progVars == <<pc, cli, args, fs, fsChanges, stdin, rd, out, rsync_command,
              children, exit_status>>

ipVars == <<ip, ipGroups, ipPhase, ipVerdict>>

----------------------------------------------------------------------------
(* Bounds *)

MaxInputs == 3      \* lines the input stream holds before it is exhausted
MaxFsChanges == 1   \* filesystem changes the environment makes in one run
MaxGroups == 5      \* dot-separated groups of a string given to validate_ip

----------------------------------------------------------------------------
(* Strings *)

None == <<"<None>">>

Whitespace == {" ", "\t", "\n"}

AsciiDigit == {"0", "1", "2", "3", "4", "5", "6", "7", "8", "9"}

\* \d of a str pattern also matches the non-ASCII decimal digits.
Digit == AsciiDigit \cup {"<U+0663>"}

RECURSIVE lstrip(_)
lstrip(s) ==
    IF s # <<>> /\ Head(s) \in Whitespace THEN lstrip(Tail(s)) ELSE s

RECURSIVE rstrip(_)
rstrip(s) ==
    IF s # <<>> /\ s[Len(s)] \in Whitespace
    THEN rstrip(SubSeq(s, 1, Len(s) - 1))
    ELSE s

strip_identity(s) == s

strip(s) == rstrip(lstrip(s))

Truthy(v) == v # None /\ v # <<>>

----------------------------------------------------------------------------
(* validate_ip: the regular expression, matched position by position.      *)
(* Each operator gives the set of positions at which a match of the        *)
(* sub-pattern that starts at position i can end (the next unread index).  *)

At(s, i) == IF i >= 1 /\ i <= Len(s) THEN s[i] ELSE "<end>"

\* 25[0-5]
Alt250(s, i) ==
    IF At(s, i) = "2" /\ At(s, i + 1) = "5"
       /\ At(s, i + 2) \in {"0", "1", "2", "3", "4", "5"}
    THEN {i + 3} ELSE {}

\* 2[0-4]\d
Alt200(s, i) ==
    IF At(s, i) = "2" /\ At(s, i + 1) \in {"0", "1", "2", "3", "4"}
       /\ At(s, i + 2) \in Digit
    THEN {i + 3} ELSE {}

\* [01]?\d\d?
Alt0(s, i) ==
    LET afterLead == {i} \cup (IF At(s, i) \in {"0", "1"} THEN {i + 1} ELSE {})
        afterDigit == {j + 1 : j \in {k \in afterLead : At(s, k) \in Digit}}
    IN  afterDigit \cup {j + 1 : j \in {k \in afterDigit : At(s, k) \in Digit}}

\* (?:25[0-5]|2[0-4]\d|[01]?\d\d?)
Octet(s, i) == Alt250(s, i) \cup Alt200(s, i) \cup Alt0(s, i)

\* (?:octet\.)
OctetDot(s, i) == {j + 1 : j \in {k \in Octet(s, i) : At(s, k) = "."}}

\* $ : at the end of the string, or just before a newline that ends it
Dollar(s, j) ==
    \/ j = Len(s) + 1
    \/ j = Len(s) /\ s[Len(s)] = "\n"

validate_ip(s) ==
    LET p1 == OctetDot(s, 1)
        p2 == UNION {OctetDot(s, i) : i \in p1}
        p3 == UNION {OctetDot(s, i) : i \in p2}
        p4 == UNION {Octet(s, i) : i \in p3}
    IN  \E j \in p4 : Dollar(s, j)

----------------------------------------------------------------------------
(* validate_ip harness: the string is written group by group, a tail is    *)
(* appended, and validate_ip is applied to it.                             *)

Groups ==
    { <<>>, <<"0">>, <<"2", "5">>, <<"2", "5", "5">>, <<"2", "5", "6">>,
      <<"1", "a">> }

Tails == { <<>>, <<"\n">>, <<" ">>, <<"\n", "\n">> }

InitIP ==
    /\ ip = <<>> /\ ipGroups = 0 /\ ipPhase = "build" /\ ipVerdict = FALSE
    /\ pc = "exit" /\ cli = None /\ args = None /\ fs = {} /\ fsChanges = 0
    /\ stdin = <<>> /\ rd = 0 /\ out = <<>> /\ rsync_command = <<>>
    /\ children = <<>> /\ exit_status = 0

IPGroup(g) ==
    /\ ipPhase = "build" /\ ipGroups < MaxGroups
    /\ ip' = IF ipGroups = 0 THEN g ELSE ip \o <<".">> \o g
    /\ ipGroups' = ipGroups + 1
    /\ UNCHANGED <<ipPhase, ipVerdict>>

IPTail(t) ==
    /\ ipPhase = "build"
    /\ ip' = ip \o t
    /\ ipPhase' = "ready"
    /\ UNCHANGED <<ipGroups, ipVerdict>>

IPValidate ==
    /\ ipPhase = "ready"
    /\ ipVerdict' = validate_ip(ip)
    /\ ipPhase' = "checked"
    /\ UNCHANGED <<ip, ipGroups>>

NextIP ==
    /\ \/ \E g \in Groups : IPGroup(g)
       \/ \E t \in Tails : IPTail(t)
       \/ IPValidate
    /\ UNCHANGED progVars

SpecIP == InitIP /\ [][NextIP]_vars

----------------------------------------------------------------------------
(* The program *)

DefaultUser == <<"c", "b", "w", "i", "n", "s", "l", "o", "w">>

DefaultHost == <<"1", "9", "2", ".", "1", "6", "8", ".", "6", ".", "6", "9">>

DefaultRemotePath ==
    <<"/", "h", "o", "m", "e", "/", "c", "b", "w", "i", "n", "s", "l", "o",
      "w", "/">>

\* parser.parse_args(): an option that is not given takes its default; the
\* positional source has none.
parse_args_no_user(c) ==
    [source |-> c.source,
     user |-> DefaultUser,
     host |-> IF c.host = None THEN DefaultHost ELSE c.host,
     remote_path |-> IF c.remote_path = None THEN DefaultRemotePath
                     ELSE c.remote_path]

parse_args(c) ==
    [source |-> c.source,
     user |-> IF c.user = None THEN DefaultUser ELSE c.user,
     host |-> IF c.host = None THEN DefaultHost ELSE c.host,
     remote_path |-> IF c.remote_path = None THEN DefaultRemotePath
                     ELSE c.remote_path]

\* os.path.exists(path), asked of the filesystem as it is now
validate_local_path(path) == path \in fs

\* One printed line (or prompt): its kind, the field it is about, the string
\* value it contains and the number it contains.
Ev(k, f, v, n) == [kind |-> k, field |-> f, value |-> v, num |-> n]

\* print(f"Error: Provided source '{args.source}' does not exist.")
SourceDiagnosticNone(src) == <<>>

SourceDiagnostic(src) ==
    IF Truthy(src) THEN <<Ev("provided_error", "source", src, 0)>> ELSE <<>>

\* print(f"Error: Provided host IP '{args.host}' is invalid.")
HostDiagnostic(host) == <<Ev("provided_error", "host", host, 0)>>

\* input(prompt_message): the prompt is written, then a line is read; at the
\* end of the stream input() raises EOFError.
ReadLineEmptyAtEOF ==
    IF rd < Len(stdin) THEN [eof |-> FALSE, line |-> stdin[rd + 1]]
    ELSE [eof |-> FALSE, line |-> <<>>]

ReadLine ==
    IF rd < Len(stdin) THEN [eof |-> FALSE, line |-> stdin[rd + 1]]
    ELSE [eof |-> TRUE, line |-> <<>>]

\* sys.exit(n): the status the parent of the process sees
sys_exit_one(n) == 1

sys_exit(n) == n % 256

\* An exception no handler catches: traceback on stderr, exit status 1
Uncaught(exc) == [out |-> <<Ev("traceback", exc, <<>>, 0)>>, status |-> 1]

\* f"{dest_user}@{dest_host}:{dest_path}"
DestinationSwapped(user, host, path) == host \o <<"@">> \o user \o <<":">> \o path

Destination(user, host, path) == user \o <<"@">> \o host \o <<":">> \o path

RsyncFlags ==
    << <<"r", "s", "y", "n", "c">>, <<"-", "a", "v", "h">>,
       <<"-", "-", "p", "r", "o", "g", "r", "e", "s", "s">>,
       <<"-", "-", "p", "a", "r", "t", "i", "a", "l">>,
       <<"-", "-", "i", "n", "p", "l", "a", "c", "e">> >>

(* Inputs *)

Paths == { <<"a">>, <<"b", " ">> }

CliSources == { None, <<>>, <<"a">>, <<"b", " ">> }

CliHosts ==
    { None, <<"1", ".", "2", ".", "3", ".", "4">>,
      <<"9", "9", "9", ".", "1", ".", "1", ".", "1">>,
      <<"1", ".", "2", ".", "3", ".", "4", "\n">> }

CliUsers == { None, <<"a", "l", "i", "c", "e">> }

CliRemotePaths == { None, <<"/", "b", "a", "c", "k", "u", "p", "/">> }

Lines ==
    { <<" ", "a">>,
      <<"1", ".", "2", ".", "3", ".", "4", " ">>,
      <<"9", "9", "9", ".", "1", ".", "1", ".", "1">> }

Streams == UNION {[1..n -> Lines] : n \in 0..MaxInputs}

\* What subprocess.run(rsync_command, check=True) can do
ChildStatuses == {0, 1, 23, 255}

Outcomes ==
    {[kind |-> "exited", n |-> c] : c \in ChildStatuses}
    \cup {[kind |-> "signaled", n |-> 9],
          [kind |-> "FileNotFoundError", n |-> 0],
          [kind |-> "PermissionError", n |-> 0]}

\* CompletedProcess.returncode: the exit status, or minus the signal number
returncode(o) == IF o.kind = "signaled" THEN 0 - o.n ELSE o.n

Init ==
    /\ cli \in [source : CliSources, user : CliUsers, host : CliHosts,
                remote_path : CliRemotePaths]
    /\ args = parse_args(cli)
    /\ fs \in SUBSET Paths
    /\ fsChanges = 0
    /\ stdin \in Streams
    /\ rd = 0
    /\ out = <<>>
    /\ rsync_command = <<>>
    /\ children = <<>>
    /\ exit_status = -1
    /\ pc = "validate_source"
    /\ ip = <<>> /\ ipGroups = 0 /\ ipPhase = "build" /\ ipVerdict = FALSE

\* get_arguments, lines 69-72 up to the call of prompt_for_input
ValidateSource ==
    /\ pc = "validate_source"
    /\ IF ~Truthy(args.source) \/ ~validate_local_path(args.source)
       THEN /\ out' = out \o SourceDiagnostic(args.source)
            /\ pc' = "prompt_source"
       ELSE /\ out' = out
            /\ pc' = "validate_host"
    /\ UNCHANGED <<cli, args, fs, fsChanges, stdin, rd, rsync_command,
                   children, exit_status>>

\* One iteration of prompt_for_input(..., validate_local_path, ...) and, when
\* it returns, the assignment to args.source
PromptSource ==
    /\ pc = "prompt_source"
    /\ LET r == ReadLine
           value == strip(r.line)
           prompt == <<Ev("prompt", "source", <<>>, 0)>>
       IN  IF r.eof
           THEN /\ out' = out \o prompt \o Uncaught("EOFError").out
                /\ exit_status' = Uncaught("EOFError").status
                /\ pc' = "exit"
                /\ UNCHANGED <<args, rd>>
           ELSE /\ rd' = rd + 1
                /\ exit_status' = exit_status
                /\ IF validate_local_path(value)
                   THEN /\ args' = [args EXCEPT !.source = value]
                        /\ out' = out \o prompt
                        /\ pc' = "validate_host"
                   ELSE /\ args' = args
                        /\ out' = out \o prompt
                                     \o <<Ev("retry_error", "source", <<>>, 0)>>
                        /\ pc' = "prompt_source"
    /\ UNCHANGED <<cli, fs, fsChanges, stdin, rsync_command, children>>

\* get_arguments, lines 75-77 up to the call of prompt_for_input
ValidateHost ==
    /\ pc = "validate_host"
    /\ IF ~validate_ip(args.host)
       THEN /\ out' = out \o HostDiagnostic(args.host)
            /\ pc' = "prompt_host"
       ELSE /\ out' = out
            /\ pc' = "build"
    /\ UNCHANGED <<cli, args, fs, fsChanges, stdin, rd, rsync_command,
                   children, exit_status>>

\* One iteration of prompt_for_input(..., validate_ip, ...) and, when it
\* returns, the assignment to args.host
PromptHost ==
    /\ pc = "prompt_host"
    /\ LET r == ReadLine
           value == strip(r.line)
           prompt == <<Ev("prompt", "host", <<>>, 0)>>
       IN  IF r.eof
           THEN /\ out' = out \o prompt \o Uncaught("EOFError").out
                /\ exit_status' = Uncaught("EOFError").status
                /\ pc' = "exit"
                /\ UNCHANGED <<args, rd>>
           ELSE /\ rd' = rd + 1
                /\ exit_status' = exit_status
                /\ IF validate_ip(value)
                   THEN /\ args' = [args EXCEPT !.host = value]
                        /\ out' = out \o prompt
                        /\ pc' = "build"
                   ELSE /\ args' = args
                        /\ out' = out \o prompt
                                     \o <<Ev("retry_error", "host", <<>>, 0)>>
                        /\ pc' = "prompt_host"
    /\ UNCHANGED <<cli, fs, fsChanges, stdin, rsync_command, children>>

\* main, lines 82-96
BuildCommand ==
    /\ pc = "build"
    /\ LET dest == Destination(args.user, args.host, args.remote_path)
       IN  /\ rsync_command' = RsyncFlags \o <<args.source, dest>>
           /\ out' = out \o <<Ev("starting", "", <<>>, 0),
                              Ev("source_line", "", args.source, 0),
                              Ev("destination_line", "", dest, 0)>>
    /\ pc' = "run"
    /\ UNCHANGED <<cli, args, fs, fsChanges, stdin, rd, children, exit_status>>

\* Where control goes after subprocess.run, for each thing it can do
RunResultRetry(o) ==
    IF o.kind = "FileNotFoundError"
    THEN [out |-> <<Ev("not_found", "", <<>>, 0)>>, status |-> sys_exit(1),
          pc |-> "exit"]
    ELSE IF o.kind = "PermissionError"
    THEN [out |-> Uncaught("PermissionError").out,
          status |-> Uncaught("PermissionError").status, pc |-> "exit"]
    ELSE IF returncode(o) # 0
    THEN [out |-> <<Ev("transfer_failed", "", <<>>, returncode(o))>>,
          status |-> -1, pc |-> "run"]
    ELSE [out |-> <<Ev("success", "", <<>>, 0)>>, status |-> 0, pc |-> "exit"]

RunResult(o) ==
    IF o.kind = "FileNotFoundError"
    THEN [out |-> <<Ev("not_found", "", <<>>, 0)>>, status |-> sys_exit(1),
          pc |-> "exit"]
    ELSE IF o.kind = "PermissionError"
    THEN [out |-> Uncaught("PermissionError").out,
          status |-> Uncaught("PermissionError").status, pc |-> "exit"]
    ELSE IF returncode(o) # 0
    THEN [out |-> <<Ev("transfer_failed", "", <<>>, returncode(o))>>,
          status |-> sys_exit(returncode(o)), pc |-> "exit"]
    ELSE [out |-> <<Ev("success", "", <<>>, 0)>>, status |-> 0, pc |-> "exit"]

\* main, lines 98-107
Run ==
    /\ pc = "run"
    /\ \E o \in Outcomes :
        /\ children' = Append(children, o)
        /\ out' = out \o RunResult(o).out
        /\ exit_status' = RunResult(o).status
        /\ pc' = RunResult(o).pc
    /\ UNCHANGED <<cli, args, fs, fsChanges, stdin, rd, rsync_command>>

\* The environment creates or removes an entry while the program is blocked
\* at a prompt.
FsChange ==
    /\ pc \in {"prompt_source", "prompt_host"}
    /\ fsChanges < MaxFsChanges
    /\ \E p \in Paths : fs' = IF p \in fs THEN fs \ {p} ELSE fs \cup {p}
    /\ fsChanges' = fsChanges + 1
    /\ UNCHANGED <<pc, cli, args, stdin, rd, out, rsync_command, children,
                   exit_status>>

ProgramStep ==
    \/ ValidateSource
    \/ PromptSource
    \/ ValidateHost
    \/ PromptHost
    \/ BuildCommand
    \/ Run

Next ==
    \/ ValidateSource /\ UNCHANGED ipVars
    \/ PromptSource /\ UNCHANGED ipVars
    \/ ValidateHost /\ UNCHANGED ipVars
    \/ PromptHost /\ UNCHANGED ipVars
    \/ BuildCommand /\ UNCHANGED ipVars
    \/ Run /\ UNCHANGED ipVars
    \/ FsChange /\ UNCHANGED ipVars

Spec == Init /\ [][Next]_vars

\* Runs with the default user and remote path, in which the interpreter
\* keeps running the main thread until the process exits.
InitLive == Init /\ cli.user = None /\ cli.remote_path = None

LiveSpec ==
    InitLive /\ [][Next]_vars /\ WF_vars(ProgramStep /\ UNCHANGED ipVars)

----------------------------------------------------------------------------
(* Vocabulary of the properties *)

\* The components of s between its dots
RECURSIVE SplitDots(_, _)
SplitDots(s, cur) ==
    IF s = <<>> THEN <<cur>>
    ELSE IF Head(s) = "." THEN <<cur>> \o SplitDots(Tail(s), <<>>)
    ELSE SplitDots(Tail(s), Append(cur, Head(s)))

DigitValue(c) ==
    CASE c = "0" -> 0 [] c = "1" -> 1 [] c = "2" -> 2 [] c = "3" -> 3
      [] c = "4" -> 4 [] c = "5" -> 5 [] c = "6" -> 6 [] c = "7" -> 7
      [] c = "8" -> 8 [] c = "9" -> 9

RECURSIVE GroupValue(_, _)
GroupValue(g, acc) ==
    IF g = <<>> THEN acc ELSE GroupValue(Tail(g), 10 * acc + DigitValue(Head(g)))

\* Four dot-separated decimal groups, each denoting an integer in 0..255,
\* and no other character
IsDottedQuad(s) ==
    LET parts == SplitDots(s, <<>>)
    IN  /\ Len(parts) = 4
        /\ \A k \in 1..4 :
            /\ parts[k] # <<>>
            /\ \A i \in 1..Len(parts[k]) : parts[k][i] \in AsciiDigit
            /\ GroupValue(parts[k], 0) \in 0..255

\* s without its leading and trailing whitespace, said without recursion
Trimmed(s) ==
    LET idx == {i \in 1..Len(s) : s[i] \notin Whitespace}
    IN  IF idx = {} THEN <<>>
        ELSE SubSeq(s, CHOOSE i \in idx : \A j \in idx : i <= j,
                       CHOOSE i \in idx : \A j \in idx : i >= j)

Printed(k) == \E i \in 1..Len(out) : out[i].kind = k

PrintedAbout(k, f) ==
    \E i \in 1..Len(out) : out[i].kind = k /\ out[i].field = f

\* Number of prompts for field f among the first n printed lines
NumPrompts(f, n) ==
    Cardinality({i \in 1..n : out[i].kind = "prompt" /\ out[i].field = f})

GivenUser == IF cli.user = None THEN DefaultUser ELSE cli.user

GivenHost == IF cli.host = None THEN DefaultHost ELSE cli.host

GivenRemotePath ==
    IF cli.remote_path = None THEN DefaultRemotePath ELSE cli.remote_path

LastChild == children[Len(children)]

AtPrompt == pc \in {"prompt_source", "prompt_host"}

PromptedFor(f) ==
    \E i \in 1..Len(out) : out[i].kind = "prompt" /\ out[i].field = f

Invoked == children # <<>>

----------------------------------------------------------------------------
(* C1: when main calls subprocess.run, the source it passes names an        *)
(* existing filesystem entry at that moment and the host it passes is an   *)
(* IPv4 dotted quad.                                                       *)
C1_ValidAtInvocation ==
    pc = "run" =>
        /\ rsync_command[6] \in fs
        /\ IsDottedQuad(args.host)

(* C2: validate_ip returns true exactly for the strings made of four        *)
(* dot-separated decimal groups in 0..255 and nothing else, a trailing     *)
(* newline included in "else".                                             *)
C2_ValidateIpIffDottedQuad ==
    ipPhase = "checked" => (ipVerdict <=> IsDottedQuad(ip))

(* C3: a child that exits with status 0 makes the program report success   *)
(* and exit 0; a child that exits with status N # 0 makes it print a       *)
(* diagnostic containing N and exit with status N, without the success     *)
(* message.                                                                *)
C3_ExitStatusRelaysChild ==
    (pc = "exit" /\ Invoked /\ LastChild.kind = "exited") =>
        IF LastChild.n = 0
        THEN Printed("success") /\ exit_status = 0
        ELSE /\ \E i \in 1..Len(out) :
                    out[i].kind = "transfer_failed" /\ out[i].num = LastChild.n
             /\ exit_status = LastChild.n
             /\ ~Printed("success")

C3_Witness ==
    /\ pc = "exit" /\ Invoked
    /\ LastChild = [kind |-> "exited", n |-> 23]
    /\ exit_status = 23

(* C4: when the tool cannot be located or cannot be executed, the program  *)
(* prints the "tool not found" diagnostic (not the transfer-failed one),   *)
(* exits with status 1 and prints no traceback.                            *)
C4_ToolNotFound ==
    (pc = "exit" /\ Invoked
        /\ LastChild.kind \in {"FileNotFoundError", "PermissionError"}) =>
        /\ Printed("not_found")
        /\ ~Printed("transfer_failed")
        /\ exit_status = 1
        /\ ~Printed("traceback")

(* C5: the argument list is the fixed flags, the source, and the           *)
(* destination user@host:remote_path built from the final field values.    *)
SourcePrompts == NumPrompts("source", Len(out))

\* The source as the user gave it: on the command line, or the accepted line
SourceAsGiven ==
    IF SourcePrompts = 0 THEN cli.source ELSE stdin[SourcePrompts]

\* The same, with a line entered at the prompt trimmed
SourceAsRead ==
    IF SourcePrompts = 0 THEN cli.source ELSE Trimmed(stdin[SourcePrompts])

(* C5 as stated: the source passed is the value the user gave, unmodified. *)
C5_SourceUnmodified ==
    rsync_command # <<>> =>
        rsync_command =
            RsyncFlags \o <<SourceAsGiven,
                            args.user \o <<"@">> \o args.host \o <<":">>
                                \o args.remote_path>>

(* C5 as amended: a source given on the command line is passed unmodified, *)
(* a source entered at the prompt is passed without its surrounding        *)
(* whitespace.                                                             *)
C5_ArgumentList ==
    rsync_command # <<>> =>
        rsync_command =
            RsyncFlags \o <<SourceAsRead,
                            args.user \o <<"@">> \o args.host \o <<":">>
                                \o args.remote_path>>

C5_Witness ==
    /\ pc = "run"
    /\ SourcePrompts > 0
    /\ rsync_command[6] # stdin[SourcePrompts]
    /\ PromptedFor("host")

(* C6: every prompt is preceded by a diagnostic.                            *)
\* The value whose rejection led to the prompt printed at position i
Offending(i) ==
    LET f == out[i].field
    IN  IF NumPrompts(f, i - 1) = 0
        THEN (IF f = "source" THEN cli.source ELSE GivenHost)
        ELSE Trimmed(stdin[NumPrompts("source", i - 1)
                           + NumPrompts("host", i - 1)])

(* C6 as stated: the line printed before each prompt is a diagnostic that  *)
(* names the prompt's field and contains the offending value.              *)
C6_DiagnosticNamesValue ==
    \A i \in 1..Len(out) :
        out[i].kind = "prompt" =>
            /\ i > 1
            /\ out[i - 1].kind \in {"provided_error", "retry_error"}
            /\ out[i - 1].field = out[i].field
            /\ out[i - 1].value = Offending(i)

(* C6 as amended: the first prompt for a field follows a diagnostic with   *)
(* the field and the offending value, except for a source that is omitted  *)
(* or empty, where nothing is printed; a prompt after a rejected           *)
(* replacement follows a diagnostic that names the field's check but not   *)
(* the value.                                                              *)
C6_DiagnosticBeforePrompt ==
    \A i \in 1..Len(out) :
        out[i].kind = "prompt" =>
            LET f == out[i].field
            IN  IF NumPrompts(f, i - 1) > 0
                THEN i > 1 /\ out[i - 1] = Ev("retry_error", f, <<>>, 0)
                ELSE IF f = "source" /\ ~Truthy(cli.source)
                THEN i = 1
                ELSE /\ i > 1
                     /\ out[i - 1] = Ev("provided_error", f, Offending(i), 0)

C6_Witness ==
    /\ NumPrompts("source", Len(out)) >= 2
    /\ PromptedFor("host")
    /\ Truthy(cli.source)

(* C7: when the input stream is exhausted at a prompt, the program's next  *)
(* step ends it with a non-zero status, and the tool is not invoked.       *)
EOFHit == PrintedAbout("traceback", "EOFError")

C7_ExhaustedInputFails ==
    /\ [][(AtPrompt /\ rd = Len(stdin) /\ out' # out) =>
            (pc' = "exit" /\ exit_status' > 0 /\ rsync_command' = <<>>
                /\ ~Invoked')]_vars
    /\ [](EOFHit => (pc = "exit" /\ exit_status > 0 /\ ~Invoked))

C7_Witness ==
    /\ EOFHit /\ pc = "exit" /\ rd = Len(stdin) /\ rd >= 2
    /\ PrintedAbout("retry_error", "host")

(* C8: subprocess.run is called at most once, and once it has been called  *)
(* the program takes no step other than ending.                            *)
C8_InvokedAtMostOnce ==
    /\ [](Len(children) <= 1)
    /\ [](Invoked => pc = "exit")
    /\ [][~Invoked]_vars

C8_Witness ==
    /\ Invoked /\ pc = "exit"
    /\ LastChild.kind = "exited" /\ LastChild.n = 23 /\ exit_status = 23

(* C9: once the filesystem is quiet and the lines still to come hold a     *)
(* value that, trimmed, satisfies the predicate of each field still to be  *)
(* repaired, the tool is eventually invoked, however many lines are        *)
(* rejected on the way and whatever was rejected before; the command is    *)
(* built only from a validated request, and a prompt is entered only from  *)
(* a failed check.                                                         *)
HostLineFrom(k) ==
    \E j \in k..Len(stdin) : IsDottedQuad(Trimmed(stdin[j]))

Supplying ==
    \/ /\ pc = "prompt_source"
       /\ fsChanges = MaxFsChanges
       /\ \E i \in (rd + 1)..Len(stdin) :
            /\ Trimmed(stdin[i]) \in fs
            /\ IsDottedQuad(args.host) \/ HostLineFrom(i + 1)
    \/ /\ pc = "prompt_host"
       /\ HostLineFrom(rd + 1)

C9_RepairIsLive ==
    /\ Supplying ~> Invoked
    /\ [][(pc' = "build" /\ pc # "build") =>
            (/\ pc \in {"validate_host", "prompt_host"}
             /\ validate_ip(args'.host)
             /\ Truthy(args'.source))]_vars
    /\ [][(AtPrompt' /\ pc' # pc) =>
            (\/ pc = "validate_source" /\ pc' = "prompt_source"
                  /\ (~Truthy(args.source) \/ args.source \notin fs)
             \/ pc = "validate_host" /\ pc' = "prompt_host"
                  /\ ~validate_ip(args.host))]_vars

\* A path is rejected, comes into existence, and is accepted when re-entered
C9_Witness ==
    /\ Invoked
    /\ SourcePrompts >= 2
    /\ Trimmed(stdin[SourcePrompts - 1]) = args.source
    /\ PrintedAbout("retry_error", "source")
    /\ PromptedFor("host")

(* C10: user and remote_path are the command line's (or the defaults) in   *)
(* every state and in the destination string; a source or host that passes *)
(* its first check is not prompted for and stays as given.                 *)
C10_FrameOfValidation ==
    /\ [](/\ args.user = GivenUser
          /\ args.remote_path = GivenRemotePath
          /\ rsync_command # <<>> =>
                rsync_command[7] = GivenUser \o <<"@">> \o args.host
                                      \o <<":">> \o GivenRemotePath
          /\ ~PromptedFor("source") => args.source = cli.source
          /\ ~PromptedFor("host") => args.host = GivenHost)
    /\ [][(pc = "validate_source" /\ Truthy(args.source)
                /\ args.source \in fs) =>
            (pc' = "validate_host" /\ out' = out /\ args' = args
                /\ rd' = rd)]_vars
    /\ [][(pc = "validate_host" /\ validate_ip(args.host)) =>
            (pc' = "build" /\ out' = out /\ args' = args /\ rd' = rd)]_vars

C10_Witness ==
    /\ pc = "run"
    /\ cli.user # None /\ cli.remote_path # None
    /\ PromptedFor("host") /\ ~PromptedFor("source")
    /\ rd >= 2

====
